---- MODULE Spec2Model ----
(***************************************************************************)
(* Gameplay engine of the gesture-controlled rhythm game: the App session  *)
(* state (status, score, combo, health, countdown), the GameScene note     *)
(* scheduler and judgement loop, the audio clock and the published hand    *)
(* positions.                                                              *)
(*                                                                         *)
(* Units.  Time is counted in ticks of 1/12 s (Seconds(1) = 12), so that a *)
(* note moving at NOTE_SPEED = 12 world units per second moves one world   *)
(* unit per tick.  Positions, distances and health are kept in tenths      *)
(* (Tenths(x) = 10 * x), so that 1.2, 0.6, 1.1 and 1.5 are the integers    *)
(* 12, 6, 11 and 15.  The program constants keep their source values.      *)
(*                                                                         *)
(* React.  A state update made by a callback is applied to the App state   *)
(* at once (functional updates run in the order they were queued).  What   *)
(* lags is what is derived from a render: the gameStatus prop captured by  *)
(* the useFrame callback of GameScene (sceneStatus) and the effects keyed  *)
(* on gameStatus (the countdown interval, the scheduler reset).  For an    *)
(* update made in a click handler React renders and flushes the effects    *)
(* before the handler's event ends; for an update made in an animation     *)
(* frame or a timer callback they run in a later task (Commit), and frame  *)
(* and timer callbacks may run before it.                                  *)
(***************************************************************************)
EXTENDS Integers, Sequences, FiniteSets, TLC

VARIABLES
    gameStatus,     \* App: useState<GameStatus>
    score,          \* App: useState(0)
    combo,          \* App: useState(0)
    health,         \* App: useState(100), in tenths
    timeLeft,       \* App: useState(GAME_TIME_LIMIT)
    chart,          \* App: useState<NoteData[]>; the notes carry hit/missed/hitTime
    audioUrl,       \* App: an audio source has been chosen
    isCameraReady,  \* useMediaPipe: tracking readiness
    audioTime,      \* audioRef.current.currentTime, in ticks
    audioPlaying,   \* the audio element is not paused
    sceneStatus,    \* GameScene: the gameStatus prop of its last render
    activeNotesRef, \* GameScene: indices into chart, in admission order
    nextNoteIndexRef, \* GameScene: read index into chart (0-based)
    timerArmed,     \* App: timerRef.current refers to a live interval
    intervals,      \* App: the number of live countdown intervals
    hands,          \* handPositionsRef.current: positions (or Null), last positions, velocities
    setup,          \* useMediaPipe: the await at which setupMediaPipe / startCamera stands
    isActive,       \* useMediaPipe: the effect has not been cleaned up
    stream,         \* useMediaPipe: the camera stream: "none", "live" or "stopped"
    landmarkerRef,  \* useMediaPipe: the detector: "none", "open" or "closed"
    error,          \* useMediaPipe: setError was called
    pauses,         \* history: pauses made in this session
    admitCount,     \* history: times each note was pushed onto activeNotesRef
    hitCalls,       \* history: onNoteHit calls per note
    missCalls,      \* history: onNoteMiss calls per note
    events,         \* history: the callbacks made by the last step, in order
    frameTime,      \* history: the audio position read by the frame that made the last step
    ticks,          \* history: countdown callbacks run in this session
    detected,       \* history: the most recent detection frame: the mapped positions
                    \* it contained, the ms since the frame before, whether it failed
    request,        \* history: the request the last step made: "none", "start", "reset"
    beatIndex,      \* generateDemoChart: the loop variable i, in half beats
    notes,          \* generateDemoChart: the notes array; the returned chart at the end
    idCount,        \* generateDemoChart: the id counter
    generated       \* generateDemoChart has returned

vars == <<gameStatus, score, combo, health, timeLeft, chart, audioUrl,
          isCameraReady, audioTime, audioPlaying, sceneStatus, activeNotesRef,
          nextNoteIndexRef, timerArmed, intervals, hands, pauses, admitCount, hitCalls,
          missCalls, events, frameTime, setup, isActive, stream, landmarkerRef,
          error, ticks, detected, request, beatIndex, notes, idCount,
          generated>>

appVars == <<gameStatus, score, combo, health, timeLeft>>
trackVars == <<setup, isActive, stream, landmarkerRef, error>>
chartVars == <<beatIndex, notes, idCount, generated>>

---------------------------------------------------------------------------
(* Units *)

Tenths(x) == 10 * x
Seconds(n) == 12 * n
Abs(x) == IF x < 0 THEN -x ELSE x
Min(a, b) == IF a < b THEN a ELSE b

(* Program constants *)
SPAWN_Z == -30
PLAYER_Z == 0
MISS_Z == 5
NOTE_SPEED == 12
GAME_TIME_LIMIT == 90

LOADING == "loading"
IDLE == "idle"
PLAYING == "playing"
PAUSED == "paused"
GAME_OVER == "game_over"
VICTORY == "victory"
GameStatus == {LOADING, IDLE, PLAYING, PAUSED, GAME_OVER, VICTORY}

(* Bounds of the exploration *)
MaxAfter == 6        \* audio positions explored: up to MaxAfter ticks past the last note
MaxCountdown == 1    \* countdown ticks explored per session (Spec)
MaxPauses == 1       \* pauses explored per session

Null == <<>>
---------------------------------------------------------------------------
(* Notes and charts *)

MkNote(id, time, lineIndex, type) ==
    [id |-> id, time |-> time, lineIndex |-> lineIndex, type |-> type,
     hit |-> FALSE, missed |-> FALSE, hitTime |-> Null]

\* getLanePosition: angle = index * 60 + 30 degrees on a circle of radius
\* HEX_RADIUS = 1.4 around (0, HEX_CENTER_Y = 1.5); in tenths, rounded.
getLanePosition(index) ==
    CASE index = 0 -> [x |-> 12, y |-> 22]
      [] index = 1 -> [x |-> 0, y |-> 29]
      [] index = 2 -> [x |-> -12, y |-> 22]
      [] index = 3 -> [x |-> -12, y |-> 8]
      [] index = 4 -> [x |-> 0, y |-> 1]
      [] index = 5 -> [x |-> 12, y |-> 8]

---------------------------------------------------------------------------
(* generateDemoChart. The loop variable i runs over 4, 5.5, 7, ... and is   *)
(* kept in half beats; note times are in 1/64 s, in which BEAT_TIME =       *)
(* 60 / SONG_BPM is a whole number.                                        *)

Halves(x) == 2 * x
SONG_BPM == 128
BEAT_TIME == (60 * 64) \div SONG_BPM

\* for (let i = 4; i < 200; i += 1.5)
FIRST_BEAT == 4
END_BEAT == 200
BEAT_STEP == 3

\* What the two Math.random() calls of a "random burst" step may give:
\* <<Math.floor(Math.random() * 6), Math.random() > 0.5 ? 'left' : 'right'>>
RandomDraws == {<<0, "right">>, <<5, "left">>}

PatternOf_Shifted(b) == ((b \div Halves(8)) + 1) % 4

\* const pattern = Math.floor(i / 8) % 4
PatternOf(b) == (b \div Halves(8)) % 4

\* const time = i * BEAT_TIME
TimeOf(b) == (b * BEAT_TIME) \div 2

\* Pattern 0, "circle flow"
CircleFlow(b, id) ==
    LET laneIndex == (b \div 2) % 6
    IN  <<MkNote(id, TimeOf(b), laneIndex, IF laneIndex < 3 THEN "left" ELSE "right")>>

\* Pattern 1, "opposites": if (i % 3 === 0)
Opposites(b, id) ==
    IF b % Halves(3) = 0
    THEN <<MkNote(id, TimeOf(b), 0, "left"), MkNote(id + 1, TimeOf(b), 3, "right")>>
    ELSE <<>>

\* Pattern 2, "random bursts": if (i % 2 === 0)
RandomBurst(b, id, draw) ==
    IF b % Halves(2) = 0
    THEN <<MkNote(id, TimeOf(b), draw[1], draw[2])>>
    ELSE <<>>

ParallelLines_OnEven(b, id) ==
    IF b % Halves(2) = 0
    THEN <<MkNote(id, TimeOf(b), 1, "left"), MkNote(id + 1, TimeOf(b), 4, "right")>>
    ELSE <<>>

\* Pattern 3, "parallel lines": if (i % 4 === 0)
ParallelLines(b, id) ==
    IF b % Halves(4) = 0
    THEN <<MkNote(id, TimeOf(b), 1, "left"), MkNote(id + 1, TimeOf(b), 4, "right")>>
    ELSE <<>>

\* The body of the loop for i = b / 2: the notes it pushes, ids from id on.
LoopBody(b, id, draw) ==
    LET pattern == PatternOf(b)
    IN  IF pattern = 0 THEN CircleFlow(b, id)
        ELSE IF pattern = 1 THEN Opposites(b, id)
        ELSE IF pattern = 2 THEN RandomBurst(b, id, draw)
        ELSE ParallelLines(b, id)

SortByTime_Descending(seq) == [k \in 1..Len(seq) |-> seq[Len(seq) + 1 - k]]

\* One step of the sort: x goes behind the notes that are not later than it.
Insert(sorted, x) ==
    LET k == Cardinality({j \in DOMAIN sorted : sorted[j].time <= x.time})
    IN  SubSeq(sorted, 1, k) \o <<x>> \o SubSeq(sorted, k + 1, Len(sorted))

RECURSIVE InsertAll(_, _)
InsertAll(sorted, rest) ==
    IF rest = <<>>
    THEN sorted
    ELSE \* the argument is computed once
         CHOOSE r \in {InsertAll(t, Tail(rest)) : t \in {Insert(sorted, Head(rest))}} : TRUE

\* notes.sort((a, b) => a.time - b.time): ascending by time, stable
SortByTime(seq) == InsertAll(<<>>, seq)

\* Charts in the shape generateDemoChart gives them: sorted by time, a lane and
\* a hand one of its patterns produces, with the spacing of the notes shortened.
\* Two simultaneous notes, lane 1 (left) and lane 4 (right): pattern "parallel
\* lines", the only one whose pairs occur on the beat grid of the loop.
ChordChart == <<MkNote(1, 3, 1, "left"), MkNote(2, 3, 4, "right")>>
\* Two notes far enough apart for the first to expire while the second is in the window.
SplitChart == <<MkNote(1, 3, 4, "right"), MkNote(2, 9, 1, "left")>>
\* A note that is not yet admitted when playback starts (a "random burst" note).
LateChart == <<MkNote(1, 31, 1, "right")>>
\* Ten notes on lane 2, where no published hand position lies, then one on lane 1.
LongChart ==
    [i \in 1..10 |-> MkNote(i, i + 1, 2, "left")] \o <<MkNote(11, 17, 1, "left")>>

\* A chart GameScene accepts as its chart prop and generateDemoChart does not
\* return: two notes for the same hand on one lane, close enough in time to
\* be inside the judgement window together.
TwinChart == <<MkNote(1, 3, 1, "left"), MkNote(2, 4, 1, "left")>>

\* The charts startGame may install (generateDemoChart always sorts by time).
ChartSet == {ChordChart, SplitChart, LateChart, LongChart}

---------------------------------------------------------------------------
(* useMediaPipe: the hand conditioner *)

(* Mapped tip positions (worldPos) of a detection frame, in tenths: the    *)
(* anchors of lane 1 and lane 4, with the depth mapHandToWorld gives them  *)
(* (z = -0.1 * y); Null when the frame does not contain the hand.          *)
LeftValues == {Null, <<0, 29, -3>>}
RightValues == {Null, <<0, 1, 0>>}

\* Further mapped positions of a moving hand.
MovingValues == {Null, <<12, 22, -2>>, <<2, 12, -1>>}

\* performance.now() - lastTimestamp of a detection frame, in milliseconds.
DeltaValues == {1, 50, 100}

\* const LERP = 0.6, in tenths
LERP == 6

\* handPositionsRef: the initial value of the ref
handPositionsRef ==
    [left |-> Null, right |-> Null, lastLeft |-> Null, lastRight |-> Null,
     leftVelocity |-> <<0, 0, 0>>, rightVelocity |-> <<0, 0, 0>>]

\* Vector3.lerpVectors(v1, v2, alpha): v1 + (v2 - v1) * alpha in each
\* coordinate, rounded to the nearest tenth.
lerpVectors_Reversed(v1, v2, alpha) ==
    [i \in 1..3 |-> v2[i] + ((v1[i] - v2[i]) * alpha + 5) \div 10]

lerpVectors(v1, v2, alpha) ==
    [i \in 1..3 |-> v1[i] + ((v2[i] - v1[i]) * alpha + 5) \div 10]

\* Vector3.subVectors(a, b).divideScalar(deltaTime): tenths per second, dt in ms
subVectorsDivideScalar(a, b, dt) ==
    [i \in 1..3 |-> ((a[i] - b[i]) * 1000) \div dt]

\* processResults for one hand: pos, last and vel are the hand's position,
\* last position and velocity in the ref, new its mapped position in this
\* frame (Null when absent), dt the time since the previous frame.
ConditionHand_NoThreshold(pos, last, vel, new, dt) ==
    IF new # Null
    THEN LET smoothed == IF pos # Null THEN lerpVectors(pos, new, LERP) ELSE new
         IN  [pos |-> smoothed,
              last |-> IF pos # Null THEN pos ELSE smoothed,
              vel |-> IF pos # Null /\ dt > 0
                      THEN subVectorsDivideScalar(smoothed, pos, dt)
                      ELSE vel]
    ELSE [pos |-> Null, last |-> last, vel |-> vel]

ConditionHand_ZeroOnAbsence(pos, last, vel, new, dt) ==
    IF new # Null
    THEN LET smoothed == IF pos # Null THEN lerpVectors(pos, new, LERP) ELSE new
         IN  [pos |-> smoothed,
              last |-> IF pos # Null THEN pos ELSE smoothed,
              vel |-> IF pos # Null /\ dt > 1
                      THEN subVectorsDivideScalar(smoothed, pos, dt)
                      ELSE vel]
    ELSE [pos |-> Null, last |-> last, vel |-> <<0, 0, 0>>]

ConditionHand(pos, last, vel, new, dt) ==
    IF new # Null
    THEN LET smoothed == IF pos # Null THEN lerpVectors(pos, new, LERP) ELSE new
         IN  [pos |-> smoothed,
              last |-> IF pos # Null THEN pos ELSE smoothed,
              vel |-> IF pos # Null /\ dt > 1
                      THEN subVectorsDivideScalar(smoothed, pos, dt)
                      ELSE vel]
    ELSE [pos |-> Null, last |-> last, vel |-> vel]

\* processResults on the whole ref
processResults(s, newLeft, newRight, dt) ==
    LET l == ConditionHand(s.left, s.lastLeft, s.leftVelocity, newLeft, dt)
        r == ConditionHand(s.right, s.lastRight, s.rightVelocity, newRight, dt)
    IN  [left |-> l.pos, right |-> r.pos, lastLeft |-> l.last,
         lastRight |-> r.last, leftVelocity |-> l.vel, rightVelocity |-> r.vel]

---------------------------------------------------------------------------
(* App: the judgement handlers and the countdown callback, on the record   *)
(* s of the App state and the audio element.                               *)

handleNoteHit_NoClamp(s) ==
    [s EXCEPT !.score = @ + 100,
              !.combo = @ + 1,
              !.health = @ + 15]

handleNoteHit_Multiplier(s) ==
    [s EXCEPT !.score = @ + 100 * (s.combo + 1),
              !.combo = @ + 1,
              !.health = Min(Tenths(100), @ + 15)]

\* handleNoteHit
handleNoteHit(s) ==
    [s EXCEPT !.score = @ + 100,
              !.combo = @ + 1,
              !.health = Min(Tenths(100), @ + 15)]

handleNoteMiss_Below(s) ==
    LET newHealth == s.health - Tenths(10) IN
    IF newHealth < 0
    THEN [s EXCEPT !.combo = 0, !.health = 0,
                   !.gameStatus = GAME_OVER, !.audioPlaying = FALSE]
    ELSE [s EXCEPT !.combo = 0, !.health = newHealth]

\* handleNoteMiss
handleNoteMiss(s) ==
    LET newHealth == s.health - Tenths(10) IN
    IF newHealth <= 0
    THEN [s EXCEPT !.combo = 0, !.health = 0,
                   !.gameStatus = GAME_OVER, !.audioPlaying = FALSE]
    ELSE [s EXCEPT !.combo = 0, !.health = newHealth]

countdownTick_AtZero(s) ==
    IF s.timeLeft <= 0
    THEN [s EXCEPT !.timeLeft = 0, !.gameStatus = VICTORY, !.audioPlaying = FALSE]
    ELSE [s EXCEPT !.timeLeft = @ - 1]

\* the setInterval callback of the countdown effect
countdownTick(s) ==
    IF s.timeLeft <= 1
    THEN [s EXCEPT !.timeLeft = 0, !.gameStatus = VICTORY, !.audioPlaying = FALSE]
    ELSE [s EXCEPT !.timeLeft = @ - 1]

AppRecord ==
    [gameStatus |-> gameStatus, score |-> score, combo |-> combo,
     health |-> health, timeLeft |-> timeLeft, audioPlaying |-> audioPlaying]

---------------------------------------------------------------------------
(* GameScene.useFrame *)

\* spawnAheadTime = Math.abs(SPAWN_Z - PLAYER_Z) / NOTE_SPEED, in ticks
spawnAheadTime == Seconds(Abs(SPAWN_Z - PLAYER_Z)) \div NOTE_SPEED

\* currentZ = PLAYER_Z - (note.time - time) * NOTE_SPEED, in tenths
currentZ(note, time) ==
    Tenths(PLAYER_Z) - (Tenths((note.time - time) * NOTE_SPEED) \div Seconds(1))

PastMissBoundary_Late(z) == z > Tenths(MISS_Z) + Tenths(1)

\* currentZ > MISS_Z
PastMissBoundary(z) == z > Tenths(MISS_Z)

\* currentZ > PLAYER_Z - 1.2 && currentZ < PLAYER_Z + 0.6
InWindow(z) == z > Tenths(PLAYER_Z) - 12 /\ z < Tenths(PLAYER_Z) + 6

\* handPos.distanceTo(notePos) < 1.1, on squared distances in tenths
DistSq(p, q) ==
    (p[1] - q[1]) * (p[1] - q[1]) + (p[2] - q[2]) * (p[2] - q[2])
        + (p[3] - q[3]) * (p[3] - q[3])
WithinHitRadius(handPos, notePos) == DistSq(handPos, notePos) < 11 * 11

HandFor_Swapped(note, h) == IF note.type = "left" THEN h.right ELSE h.left

HandFor_Fallback(note, h) ==
    IF note.type = "left"
    THEN (IF h.left # Null THEN h.left ELSE h.right)
    ELSE (IF h.right # Null THEN h.right ELSE h.left)

\* note.type === 'left' ? hands.left : hands.right
HandFor(note, h) == IF note.type = "left" THEN h.left ELSE h.right

NotePos(note, z) ==
    <<getLanePosition(note.lineIndex).x, getLanePosition(note.lineIndex).y, z>>

\* activeNotesRef.current.splice(i, 1)
Splice(seq, i) == SubSeq(seq, 1, i - 1) \o SubSeq(seq, i + 1, Len(seq))

Admit_Unshift(c, active, next, counts, time) ==
    LET due(j) == c[j].time - spawnAheadTime <= time
        stop == CHOOSE j \in (next + 1)..(Len(c) + 1) :
                    /\ \A k \in (next + 1)..(j - 1) : due(k)
                    /\ j <= Len(c) => ~due(j)
    IN  [active |-> [i \in 1..(stop - 1 - next) |-> stop - i] \o active,
         next |-> stop - 1,
         counts |-> [n \in DOMAIN counts |->
                        IF n > next /\ n < stop THEN counts[n] + 1 ELSE counts[n]]]

Admit_AllAtOnce(c, active, next, counts, time) ==
    [active |-> active \o [i \in 1..(Len(c) - next) |-> next + i],
     next |-> Len(c),
     counts |-> [n \in DOMAIN counts |-> IF n > next THEN counts[n] + 1 ELSE counts[n]]]

\* The admit loop: push chart[nextNoteIndex] while time - spawnAheadTime <= now.
RECURSIVE Admit(_, _, _, _, _)
Admit(c, active, next, counts, time) ==
    IF next < Len(c) /\ c[next + 1].time - spawnAheadTime <= time
    THEN Admit(c, Append(active, next + 1), next + 1,
               [counts EXCEPT ![next + 1] = @ + 1], time)
    ELSE [active |-> active, next |-> next, counts |-> counts]

\* note.missed = true; onNoteMiss(note); activeNotesRef.current.splice(i, 1)
\* st = [chart, active, app, hitCalls, missCalls, events]; n = st.active[i]
MarkMissed_KeepActive(st, n, i) ==
    [st EXCEPT !.chart[n].missed = TRUE,
               !.app = handleNoteMiss(@),
               !.missCalls[n] = @ + 1,
               !.events = Append(@, <<"miss", n>>)]

MarkMissed(st, n, i) ==
    [st EXCEPT !.chart[n].missed = TRUE,
               !.app = handleNoteMiss(@),
               !.missCalls[n] = @ + 1,
               !.events = Append(@, <<"miss", n>>),
               !.active = Splice(@, i)]

\* note.hit = true; note.hitTime = time; onNoteHit(note, true); splice(i, 1)
MarkHit_NoHitTime(st, n, i, time) ==
    [st EXCEPT !.chart[n].hit = TRUE,
               !.app = handleNoteHit(@),
               !.hitCalls[n] = @ + 1,
               !.events = Append(@, <<"hit", n>>),
               !.active = Splice(@, i)]

MarkHit(st, n, i, time) ==
    [st EXCEPT !.chart[n].hit = TRUE,
               !.chart[n].hitTime = <<time>>,
               !.app = handleNoteHit(@),
               !.hitCalls[n] = @ + 1,
               !.events = Append(@, <<"hit", n>>),
               !.active = Splice(@, i)]

JudgeUnresolved_OneHit(st, i, time, h) ==
    LET n == st.active[i]
        note == st.chart[n]
        z == currentZ(note, time)
        handPos == HandFor(note, h)
    IN  IF PastMissBoundary(z)
        THEN MarkMissed(st, n, i)
        ELSE IF InWindow(z) /\ handPos # Null
                /\ WithinHitRadius(handPos, NotePos(note, z))
                /\ \A e \in DOMAIN st.events : st.events[e][1] # "hit"
        THEN MarkHit(st, n, i, time)
        ELSE st

\* The body of the judgement loop for an unresolved note: expiry, then collision.
JudgeUnresolved(st, i, time, h) ==
    LET n == st.active[i]
        note == st.chart[n]
        z == currentZ(note, time)
        handPos == HandFor(note, h)
    IN  IF PastMissBoundary(z)
        THEN MarkMissed(st, n, i)
        ELSE IF InWindow(z) /\ handPos # Null
                /\ WithinHitRadius(handPos, NotePos(note, z))
        THEN MarkHit(st, n, i, time)
        ELSE st

JudgeNote_NoSkip(st, i, time, h) == JudgeUnresolved(st, i, time, h)

\* One iteration of the judgement loop, for position i of the active list:
\* if (note.hit || note.missed) continue; ...
JudgeNote(st, i, time, h) ==
    IF st.chart[st.active[i]].hit \/ st.chart[st.active[i]].missed
    THEN st
    ELSE JudgeUnresolved(st, i, time, h)

\* for (let i = activeNotesRef.current.length - 1; i >= 0; i--)
RECURSIVE JudgeFrom(_, _, _, _)
JudgeFrom(st, i, time, h) ==
    IF i = 0 THEN st
    ELSE CHOOSE done \in {JudgeFrom(nxt, i - 1, time, h) :
                              nxt \in {JudgeNote(st, i, time, h)}} : TRUE
---------------------------------------------------------------------------
(* Initial state: App and GameScene as constructed, before tracking is up. *)

Zeros(c) == [i \in 1..Len(c) |-> 0]

Init ==
    /\ gameStatus = LOADING
    /\ score = 0
    /\ combo = 0
    /\ health = Tenths(100)
    /\ timeLeft = GAME_TIME_LIMIT
    /\ chart \in ChartSet
    /\ audioUrl = FALSE
    /\ isCameraReady = FALSE
    /\ audioTime = 0
    /\ audioPlaying = FALSE
    /\ sceneStatus = LOADING
    /\ activeNotesRef = <<>>
    /\ nextNoteIndexRef = 0
    /\ timerArmed = FALSE
    /\ intervals = 0
    /\ hands = handPositionsRef
    /\ setup = "resolver"
    /\ isActive = TRUE
    /\ stream = "none"
    /\ landmarkerRef = "none"
    /\ error = FALSE
    /\ ticks = 0
    /\ detected = [left |-> Null, right |-> Null, dt |-> 0, failed |-> FALSE]
    /\ request = "none"
    /\ beatIndex = Halves(FIRST_BEAT)
    /\ notes = <<>>
    /\ idCount = 0
    /\ generated = FALSE
    /\ pauses = 0
    /\ admitCount = Zeros(chart)
    /\ hitCalls = Zeros(chart)
    /\ missCalls = Zeros(chart)
    /\ events = <<>>
    /\ frameTime = Null

\* No status change is waiting for its render and effects.
Quiescent == sceneStatus = gameStatus

\* The countdown effect for the status now rendered: the cleanup of the last
\* run clears the interval timerRef refers to, and for playing the effect sets
\* a new one.
Rearm(status) ==
    (IF timerArmed THEN intervals - 1 ELSE intervals)
        + (IF status = PLAYING THEN 1 ELSE 0)

RunEffects_TimerWhilePaused(status) ==
    /\ sceneStatus' = status
    /\ activeNotesRef' = <<>>
    /\ nextNoteIndexRef' = 0
    /\ timerArmed' = (status \in {PLAYING, PAUSED})
    /\ intervals' = IF status \in {PLAYING, PAUSED} THEN 1 ELSE 0

RunEffects_KeepActive(status) ==
    /\ sceneStatus' = status
    /\ UNCHANGED activeNotesRef
    /\ nextNoteIndexRef' = 0
    /\ timerArmed' = (status = PLAYING)
    /\ intervals' = Rearm(status)

RunEffects_KeepScheduler(status) ==
    /\ sceneStatus' = status
    /\ UNCHANGED <<activeNotesRef, nextNoteIndexRef>>
    /\ timerArmed' = (status = PLAYING)
    /\ intervals' = Rearm(status)

\* The effects keyed on gameStatus (and chart), run for the status now rendered:
\* GameScene resets its scheduler, App arms or clears the countdown interval.
RunEffects(status) ==
    /\ sceneStatus' = status
    /\ activeNotesRef' = <<>>
    /\ nextNoteIndexRef' = 0
    /\ timerArmed' = (status = PLAYING)
    /\ intervals' = Rearm(status)

---------------------------------------------------------------------------
(* useMediaPipe: setup, detection loop and cleanup *)

\* await FilesetResolver.forVisionTasks(...) resolves
ResolverLoaded ==
    /\ setup = "resolver"
    /\ setup' = IF isActive THEN "landmarker" ELSE "ended"
    /\ events' = <<>>
    /\ frameTime' = Null
    /\ request' = "none"
    /\ UNCHANGED chartVars
    /\ UNCHANGED <<appVars, chart, audioUrl, isCameraReady, audioTime,
                   audioPlaying, sceneStatus, activeNotesRef, nextNoteIndexRef,
                   timerArmed, intervals, hands, pauses, admitCount, hitCalls, missCalls,
                   isActive, stream, landmarkerRef, error, ticks, detected>>

\* await HandLandmarker.createFromOptions(...) resolves
LandmarkerCreated ==
    /\ setup = "landmarker"
    /\ IF isActive
       THEN landmarkerRef' = "open" /\ setup' = "camera"
       ELSE landmarkerRef' = "closed" /\ setup' = "ended"
    /\ events' = <<>>
    /\ frameTime' = Null
    /\ request' = "none"
    /\ UNCHANGED chartVars
    /\ UNCHANGED <<appVars, chart, audioUrl, isCameraReady, audioTime,
                   audioPlaying, sceneStatus, activeNotesRef, nextNoteIndexRef,
                   timerArmed, intervals, hands, pauses, admitCount, hitCalls, missCalls,
                   isActive, stream, error, ticks, detected>>

\* One of the awaits of setupMediaPipe rejects: the catch of setupMediaPipe.
SetupFails ==
    /\ setup \in {"resolver", "landmarker"}
    /\ setup' = "ended"
    /\ error' = (error \/ isActive)
    /\ events' = <<>>
    /\ frameTime' = Null
    /\ request' = "none"
    /\ UNCHANGED chartVars
    /\ UNCHANGED <<appVars, chart, audioUrl, isCameraReady, audioTime,
                   audioPlaying, sceneStatus, activeNotesRef, nextNoteIndexRef,
                   timerArmed, intervals, hands, pauses, admitCount, hitCalls, missCalls,
                   isActive, stream, landmarkerRef, ticks, detected>>

\* await navigator.mediaDevices.getUserMedia(...) resolves: startCamera
CameraGranted ==
    /\ setup = "camera"
    /\ stream' = "live"
    /\ setup' = IF isActive THEN "video" ELSE "ended"
    /\ events' = <<>>
    /\ frameTime' = Null
    /\ request' = "none"
    /\ UNCHANGED chartVars
    /\ UNCHANGED <<appVars, chart, audioUrl, isCameraReady, audioTime,
                   audioPlaying, sceneStatus, activeNotesRef, nextNoteIndexRef,
                   timerArmed, intervals, hands, pauses, admitCount, hitCalls, missCalls,
                   isActive, landmarkerRef, error, ticks, detected>>

\* getUserMedia rejects: the catch of startCamera
CameraDenied ==
    /\ setup = "camera"
    /\ setup' = "ended"
    /\ error' = (error \/ isActive)
    /\ events' = <<>>
    /\ frameTime' = Null
    /\ request' = "none"
    /\ UNCHANGED chartVars
    /\ UNCHANGED <<appVars, chart, audioUrl, isCameraReady, audioTime,
                   audioPlaying, sceneStatus, activeNotesRef, nextNoteIndexRef,
                   timerArmed, intervals, hands, pauses, admitCount, hitCalls, missCalls,
                   isActive, stream, landmarkerRef, ticks, detected>>

\* video.onloadeddata: setIsCameraReady(true) and the first predictWebcam; the
\* effect of App then leaves LOADING.
CameraReady ==
    /\ setup = "video"
    /\ events' = <<>>
    /\ frameTime' = Null
    /\ request' = "none"
    /\ UNCHANGED chartVars
    /\ IF isActive
       THEN /\ setup' = "running"
            /\ isCameraReady' = TRUE
            /\ gameStatus' = IF gameStatus = LOADING THEN IDLE ELSE gameStatus
            /\ RunEffects(gameStatus')
       ELSE /\ setup' = "ended"
            /\ UNCHANGED <<isCameraReady, gameStatus, sceneStatus,
                           activeNotesRef, nextNoteIndexRef, timerArmed, intervals>>
    /\ UNCHANGED <<score, combo, health, timeLeft, chart, audioUrl, audioTime,
                   audioPlaying, hands, pauses, admitCount, hitCalls, missCalls,
                   isActive, stream, landmarkerRef, error, ticks, detected>>

\* The cleanup of the effect of useMediaPipe.
Teardown ==
    /\ isActive
    /\ isActive' = FALSE
    /\ setup' = IF setup = "running" THEN "ended" ELSE setup
    /\ landmarkerRef' = IF landmarkerRef = "open" THEN "closed" ELSE landmarkerRef
    /\ stream' = IF stream = "live" THEN "stopped" ELSE stream
    /\ events' = <<>>
    /\ frameTime' = Null
    /\ request' = "none"
    /\ UNCHANGED chartVars
    /\ UNCHANGED <<appVars, chart, audioUrl, isCameraReady, audioTime,
                   audioPlaying, sceneStatus, activeNotesRef, nextNoteIndexRef,
                   timerArmed, intervals, hands, pauses, admitCount, hitCalls, missCalls,
                   error, ticks, detected>>

\* handleFileUpload (the input is rendered on the idle landing screen)
UploadAudio ==
    /\ gameStatus = IDLE
    /\ Quiescent
    /\ ~audioUrl
    /\ audioUrl' = TRUE
    /\ events' = <<>>
    /\ frameTime' = Null
    /\ request' = "none"
    /\ UNCHANGED chartVars
    /\ UNCHANGED <<trackVars, ticks, detected,
                   gameStatus, score, combo, health, timeLeft, chart,
                   isCameraReady, audioTime, audioPlaying, sceneStatus,
                   activeNotesRef, nextNoteIndexRef, timerArmed, intervals, hands, pauses,
                   admitCount, hitCalls, missCalls>>

\* predictWebcam may run: the loop is scheduled and line 107 lets it pass.
Detecting == setup = "running" /\ isActive /\ landmarkerRef = "open"

\* predictWebcam when detectForVideo returns: processResults on a frame with
\* mapped positions l and r (Null for a hand the frame does not contain).
DetectFrame(l, r, dt) ==
    /\ Detecting
    /\ hands' = processResults(hands, l, r, dt)
    /\ detected' = [left |-> l, right |-> r, dt |-> dt, failed |-> FALSE]
    /\ <<hands', detected'>> # <<hands, detected>>
    /\ events' = <<>>
    /\ frameTime' = Null
    /\ request' = "none"
    /\ UNCHANGED chartVars
    /\ UNCHANGED <<appVars, chart, audioUrl, isCameraReady, audioTime,
                   audioPlaying, sceneStatus, activeNotesRef, nextNoteIndexRef,
                   timerArmed, intervals, pauses, admitCount, hitCalls, missCalls,
                   trackVars, ticks>>

\* predictWebcam when detectForVideo throws: the catch swallows the error,
\* processResults is not called, the next frame is requested.
DetectFail ==
    /\ Detecting
    /\ detected' = [left |-> Null, right |-> Null, dt |-> 0, failed |-> TRUE]
    /\ detected' # detected
    /\ events' = <<>>
    /\ frameTime' = Null
    /\ request' = "none"
    /\ UNCHANGED chartVars
    /\ UNCHANGED <<appVars, chart, audioUrl, isCameraReady, audioTime,
                   audioPlaying, sceneStatus, activeNotesRef, nextNoteIndexRef,
                   timerArmed, intervals, hands, pauses, admitCount, hitCalls, missCalls,
                   trackVars, ticks>>

---------------------------------------------------------------------------
(* generateDemoChart, one loop iteration at a time *)

sessionVars == <<gameStatus, score, combo, health, timeLeft, chart, audioUrl,
                 isCameraReady, audioTime, audioPlaying, sceneStatus,
                 activeNotesRef, nextNoteIndexRef, timerArmed, intervals, hands, pauses,
                 admitCount, hitCalls, missCalls, setup, isActive, stream,
                 landmarkerRef, error, ticks, detected>>

\* One iteration of the loop; draw is what Math.random gives in it.
GenerateStep(draw) ==
    /\ ~generated
    /\ beatIndex < Halves(END_BEAT)
    /\ \E pushed \in {LoopBody(beatIndex, idCount, draw)} :
           /\ notes' = notes \o pushed
           /\ idCount' = idCount + Len(pushed)
    /\ beatIndex' = beatIndex + BEAT_STEP
    /\ events' = <<>>
    /\ frameTime' = Null
    /\ request' = "none"
    /\ UNCHANGED <<sessionVars, generated>>

\* return notes.sort(...)
GenerateReturn ==
    /\ ~generated
    /\ beatIndex >= Halves(END_BEAT)
    /\ notes' = SortByTime(notes)
    /\ generated' = TRUE
    /\ events' = <<>>
    /\ frameTime' = Null
    /\ request' = "none"
    /\ UNCHANGED <<sessionVars, beatIndex, idCount>>

---------------------------------------------------------------------------
(* App: the buttons *)

\* startGame; c is the chart generateDemoChart returns
StartAllowed_CameraOnly(audio, cameraReady) == cameraReady

\* The guard of startGame: if (!audioUrl || !isCameraReady) return;
StartAllowed(audio, cameraReady) == audio /\ cameraReady

startGame(c) ==
    /\ gameStatus \in {LOADING, IDLE}
    /\ Quiescent
    /\ events' = <<>>
    /\ frameTime' = Null
    /\ request' = "start"
    /\ UNCHANGED chartVars
    /\ IF ~StartAllowed(audioUrl, isCameraReady)
       THEN UNCHANGED <<trackVars, ticks, detected,
                   gameStatus, score, combo, health, timeLeft, chart,
                        audioUrl, isCameraReady, audioTime, audioPlaying,
                        sceneStatus, activeNotesRef, nextNoteIndexRef,
                        timerArmed, intervals, hands, pauses, admitCount, hitCalls,
                        missCalls>>
       ELSE /\ score' = 0
            /\ combo' = 0
            /\ health' = Tenths(100)
            /\ timeLeft' = GAME_TIME_LIMIT
            /\ chart' = c
            /\ gameStatus' = PLAYING
            /\ audioTime' = 0
            /\ audioPlaying' = TRUE
            /\ RunEffects(PLAYING)
            /\ pauses' = 0
            /\ ticks' = 0
            /\ admitCount' = Zeros(c)
            /\ hitCalls' = Zeros(c)
            /\ missCalls' = Zeros(c)
            /\ UNCHANGED <<trackVars, detected, audioUrl, isCameraReady, hands>>

\* togglePause
togglePause ==
    /\ gameStatus \in {PLAYING, PAUSED}
    /\ Quiescent
    /\ gameStatus = PLAYING => pauses < MaxPauses
    /\ pauses' = IF gameStatus = PLAYING THEN pauses + 1 ELSE pauses
    /\ gameStatus' = IF gameStatus = PLAYING THEN PAUSED ELSE PLAYING
    /\ audioPlaying' = (gameStatus = PAUSED)
    /\ RunEffects(gameStatus')
    /\ events' = <<>>
    /\ frameTime' = Null
    /\ request' = "none"
    /\ UNCHANGED chartVars
    /\ UNCHANGED <<trackVars, ticks, detected,
                   score, combo, health, timeLeft, chart, audioUrl,
                   isCameraReady, audioTime, hands, admitCount, hitCalls,
                   missCalls>>

\* a button that starts the session over instead of leaving it
resetGame_Replay ==
    /\ gameStatus \in {PLAYING, PAUSED, GAME_OVER, VICTORY}
    /\ Quiescent
    /\ gameStatus' = PLAYING
    /\ audioPlaying' = TRUE
    /\ audioTime' = 0
    /\ RunEffects(PLAYING)
    /\ events' = <<>>
    /\ frameTime' = Null
    /\ request' = "reset"
    /\ UNCHANGED chartVars
    /\ UNCHANGED <<trackVars, ticks, detected,
                   score, combo, health, timeLeft, chart, audioUrl,
                   isCameraReady, hands, pauses, admitCount, hitCalls, missCalls>>

\* resetGame (the exit button while playing or paused, the button of the result screen)
resetGame ==
    /\ gameStatus \in {PLAYING, PAUSED, GAME_OVER, VICTORY}
    /\ Quiescent
    /\ gameStatus' = IDLE
    /\ audioPlaying' = FALSE
    /\ audioTime' = 0
    /\ RunEffects(IDLE)
    /\ events' = <<>>
    /\ frameTime' = Null
    /\ request' = "reset"
    /\ UNCHANGED chartVars
    /\ UNCHANGED <<trackVars, ticks, detected,
                   score, combo, health, timeLeft, chart, audioUrl,
                   isCameraReady, hands, pauses, admitCount, hitCalls, missCalls>>

---------------------------------------------------------------------------
(* Callbacks *)

\* The audio positions a callback may read: playback only moves forward, and
\* stands still while the element is paused.
MaxTime == chart[Len(chart)].time + MaxAfter
Readable == IF audioPlaying THEN audioTime..MaxTime ELSE {audioTime}

\* GameScene.useFrame at audio position time; when a miss of this frame pauses
\* the audio, the element stops at that position or later.
FrameTick(time) ==
    /\ sceneStatus = PLAYING
    /\ time \in Readable
    /\ \E adm \in {Admit(chart, activeNotesRef, nextNoteIndexRef, admitCount, time)} :
       \E st \in {JudgeFrom([chart |-> chart, active |-> adm.active,
                              app |-> AppRecord, hitCalls |-> hitCalls,
                              missCalls |-> missCalls, events |-> <<>>],
                             Len(adm.active), time, hands)} :
           /\ chart' = st.chart
           /\ activeNotesRef' = st.active
           /\ nextNoteIndexRef' = adm.next
           /\ admitCount' = adm.counts
           /\ hitCalls' = st.hitCalls
           /\ missCalls' = st.missCalls
           /\ events' = st.events
           /\ frameTime' = <<time>>
           /\ request' = "none"
           /\ UNCHANGED chartVars
           /\ gameStatus' = st.app.gameStatus
           /\ score' = st.app.score
           /\ combo' = st.app.combo
           /\ health' = st.app.health
           /\ timeLeft' = st.app.timeLeft
           /\ audioPlaying' = st.app.audioPlaying
           /\ IF audioPlaying /\ ~st.app.audioPlaying
              THEN audioTime' \in time..MaxTime
              ELSE audioTime' = time
    /\ UNCHANGED <<trackVars, ticks, detected,
                   audioUrl, isCameraReady, sceneStatus, timerArmed, intervals, hands,
                   pauses>>

\* The countdown interval fires.
TimerTick ==
    /\ intervals > 0
    /\ LET s == countdownTick(AppRecord)
       IN  /\ gameStatus' = s.gameStatus
           /\ timeLeft' = s.timeLeft
           /\ audioPlaying' = s.audioPlaying
           /\ IF audioPlaying /\ ~s.audioPlaying
              THEN audioTime' \in Readable
              ELSE audioTime' = audioTime
    /\ ticks' = ticks + 1
    /\ events' = <<>>
    /\ frameTime' = Null
    /\ request' = "none"
    /\ UNCHANGED chartVars
    /\ UNCHANGED <<trackVars, detected,
                   score, combo, health, chart, audioUrl, isCameraReady,
                   sceneStatus, activeNotesRef, nextNoteIndexRef, timerArmed, intervals,
                   hands, pauses, admitCount, hitCalls, missCalls>>

\* React renders a status set by a frame or timer callback and runs the effects.
Commit ==
    /\ ~Quiescent
    /\ RunEffects(gameStatus)
    /\ events' = <<>>
    /\ frameTime' = Null
    /\ request' = "none"
    /\ UNCHANGED chartVars
    /\ UNCHANGED <<trackVars, ticks, detected,
                   gameStatus, score, combo, health, timeLeft, chart, audioUrl,
                   isCameraReady, audioTime, audioPlaying, hands, pauses,
                   admitCount, hitCalls, missCalls>>

\* Spec explores the first MaxCountdown countdown ticks of each session.
CountdownExplored == GAME_TIME_LIMIT - timeLeft < MaxCountdown

\* The detection frames of Spec: 50 ms apart, and a hand that is detected in
\* two frames in a row has not moved in between.
Still(l, r) ==
    /\ (hands.left # Null /\ l # Null) => l = hands.left
    /\ (hands.right # Null /\ r # Null) => r = hands.right

Next ==
    \/ ResolverLoaded
    \/ LandmarkerCreated
    \/ CameraGranted
    \/ CameraReady
    \/ UploadAudio
    \/ \E l \in LeftValues, r \in RightValues :
           Still(l, r) /\ DetectFrame(l, r, 50)
    \/ \E c \in ChartSet : startGame(c)
    \/ togglePause
    \/ resetGame
    \/ \E time \in Readable : FrameTick(time)
    \/ CountdownExplored /\ TimerTick
    \/ Commit

Spec == Init /\ [][Next]_vars

\* The render loop calls useFrame on every display refresh and the audio plays
\* on while the session is playing: a frame eventually reads the last position.
TickAtEnd == FrameTick(MaxTime)

\* The sessions of SpecLive: the right hand is never detected.
NextLive ==
    \/ ResolverLoaded
    \/ LandmarkerCreated
    \/ CameraGranted
    \/ CameraReady
    \/ UploadAudio
    \/ \E l \in LeftValues : Still(l, Null) /\ DetectFrame(l, Null, 50)
    \/ \E c \in ChartSet : startGame(c)
    \/ togglePause
    \/ resetGame
    \/ \E time \in Readable : FrameTick(time)
    \/ CountdownExplored /\ TimerTick
    \/ Commit

SpecLive == Init /\ [][NextLive]_vars /\ WF_vars(TickAtEnd)

\* SpecCountdown follows the countdown of a session to its end and
\* MaxCountdown ticks further: sessions on the two-note chart, no hand detected.
CountdownFollowed == ticks < GAME_TIME_LIMIT + MaxCountdown

NextCountdown ==
    \/ ResolverLoaded
    \/ LandmarkerCreated
    \/ CameraGranted
    \/ CameraReady
    \/ UploadAudio
    \/ startGame(ChordChart)
    \/ togglePause
    \/ resetGame
    \/ \E time \in Readable : FrameTick(time)
    \/ CountdownFollowed /\ TimerTick
    \/ Commit

SpecCountdown == Init /\ [][NextCountdown]_vars

\* The tracking session of SpecTracking, without a game: setup with its
\* failures, teardown at any moment, and detection frames in which the left
\* hand moves between positions, at every frame distance of DeltaValues.
NextTracking ==
    \/ ResolverLoaded
    \/ LandmarkerCreated
    \/ SetupFails
    \/ CameraGranted
    \/ CameraDenied
    \/ CameraReady
    \/ Teardown
    \/ \E l \in MovingValues, r \in RightValues, dt \in DeltaValues :
           DetectFrame(l, r, dt)
    \/ DetectFail

SpecTracking == Init /\ [][NextTracking]_vars

\* The sessions of SpecFlaky: one session on the two-note chart with still
\* hands, over a detector whose call may throw in any frame.
NextFlaky ==
    \/ ResolverLoaded
    \/ LandmarkerCreated
    \/ CameraGranted
    \/ CameraReady
    \/ UploadAudio
    \/ \E l \in LeftValues, r \in RightValues :
           Still(l, r) /\ DetectFrame(l, r, 50)
    \/ DetectFail
    \/ startGame(ChordChart)
    \/ \E time \in Readable : FrameTick(time)
    \/ CountdownExplored /\ TimerTick

SpecFlaky == Init /\ [][NextFlaky]_vars

\* The sessions of SpecEndgame: sessions on the chart of eleven notes with no
\* hand detected, the countdown followed to its end, left by the button of the
\* result screen. Of the interval
\* callbacks that find a status not yet rendered, only the one that comes
\* right after the frame that set the status is followed.
NextEndgame ==
    \/ ResolverLoaded
    \/ LandmarkerCreated
    \/ CameraGranted
    \/ CameraReady
    \/ UploadAudio
    \/ startGame(LongChart)
    \/ \E time \in Readable : FrameTick(time)
    \/ CountdownFollowed /\ (Quiescent \/ frameTime # Null) /\ TimerTick
    \/ Commit
    \/ gameStatus \in {GAME_OVER, VICTORY} /\ resetGame

SpecEndgame == Init /\ [][NextEndgame]_vars

\* The sessions of SpecTwin: GameScene judging the chart of two notes for the
\* same hand, with still hands.
NextTwin ==
    \/ ResolverLoaded
    \/ LandmarkerCreated
    \/ CameraGranted
    \/ CameraReady
    \/ UploadAudio
    \/ \E l \in LeftValues, r \in RightValues :
           Still(l, r) /\ DetectFrame(l, r, 50)
    \/ startGame(TwinChart)
    \/ togglePause
    \/ \E time \in Readable : FrameTick(time)

SpecTwin == Init /\ [][NextTwin]_vars

\* One call of generateDemoChart, for every outcome of its random draws.
NextChart ==
    \/ \E draw \in RandomDraws : GenerateStep(draw)
    \/ GenerateReturn

SpecChart == Init /\ [][NextChart]_vars
---------------------------------------------------------------------------
(* Properties *)

Range(f) == {f[i] : i \in DOMAIN f}
Count(seq, e) == Cardinality({i \in DOMAIN seq : seq[i] = e})
Unresolved(note) == ~note.hit /\ ~note.missed

RECURSIVE SumSeq(_)
SumSeq(seq) == IF seq = <<>> THEN 0 ELSE Head(seq) + SumSeq(Tail(seq))

\* A step that installs a new chart (a successful start).
NewSession == gameStatus \in {LOADING, IDLE} /\ gameStatus' = PLAYING

\* The active list a frame at position time judges: the list after its admit loop.
Judged(time) ==
    Range(Admit(chart, activeNotesRef, nextNoteIndexRef, admitCount, time).active)

\* C1: within one session, whatever the pauses and resumes, every chart note
\* is pushed onto the scheduler's active list at most once.
C1_AdmittedOnce == \A n \in DOMAIN admitCount : admitCount[n] <= 1

\* C2: every note triggers at most one judgement callback (onNoteHit plus
\* onNoteMiss) over its lifetime, for every sequence of ticks, pauses and resumes.
C2_JudgedAtMostOnce ==
    \A n \in DOMAIN chart : hitCalls[n] + missCalls[n] <= 1

\* A resolved note sits in the active list again after a resume, judged once.
C2_Witness ==
    \E n \in DOMAIN chart :
        /\ admitCount[n] >= 2
        /\ n \in Range(activeNotesRef)
        /\ hitCalls[n] + missCalls[n] = 1

C3_Flags ==
    \A n \in DOMAIN chart :
        /\ ~(chart[n].hit /\ chart[n].missed)
        /\ (chart[n].hitTime # Null) <=> chart[n].hit

C3_Sticky ==
    ~NewSession =>
        \A n \in DOMAIN chart :
            /\ chart[n].hit => chart'[n].hit
            /\ chart[n].missed => chart'[n].missed

\* C3: for every note, hit and missed are never both true, hitTime is set
\* exactly when hit is true, and a flag once true stays true for that chart.
C3_NoteFlags == []C3_Flags /\ [][C3_Sticky]_vars

\* One note of the chart is hit with its hitTime recorded, another is missed.
C3_Witness ==
    \E n, m \in DOMAIN chart :
        /\ chart[n].hit /\ chart[n].hitTime # Null
        /\ chart[m].missed /\ chart[m].hitTime = Null

\* C4: once status is game_over or victory, status, score, combo, health and
\* timeRemaining do not change until a reset request moves the session to idle.
C4_TerminalFrozen ==
    [][(gameStatus \in {GAME_OVER, VICTORY} /\ gameStatus' # IDLE)
            => UNCHANGED appVars]_vars

C5_Calls ==
    \A n \in DOMAIN chart :
        /\ missCalls[n] <= 1
        /\ chart[n].missed <=> missCalls[n] = 1

\* The active unresolved notes a frame at position time finds past the miss boundary.
Expired(time) ==
    {n \in Judged(time) :
        Unresolved(chart[n]) /\ currentZ(chart[n], time) > Tenths(MISS_Z)}

C5_Step ==
    frameTime' # Null =>
        \A n \in Expired(frameTime'[1]) :
            /\ chart'[n].missed
            /\ ~chart'[n].hit
            /\ Count(events', <<"miss", n>>) = 1
            /\ missCalls'[n] = missCalls[n] + 1
            /\ n \notin Range(activeNotesRef')

\* C5: a frame that finds an active unresolved note past the miss boundary
\* marks it missed, calls onNoteMiss for it exactly once and removes it from
\* the active list in that frame; no note is reported missed twice.
C5_Expiry == []C5_Calls /\ [][C5_Step]_vars

\* The last frame reported a miss: the note is flagged and gone from the list.
C5_Witness ==
    \E n \in DOMAIN chart :
        /\ Count(events, <<"miss", n>>) = 1
        /\ chart[n].missed
        /\ n \notin Range(activeNotesRef)

\* The active unresolved notes a frame at position time finds strictly inside
\* the window with the required hand present and closer than 1.1.
Reached(time) ==
    {n \in Judged(time) :
        LET z == currentZ(chart[n], time)
            handPos == IF chart[n].type = "left" THEN hands.left ELSE hands.right
        IN  /\ Unresolved(chart[n])
            /\ z > Tenths(PLAYER_Z) - 12
            /\ z < Tenths(PLAYER_Z) + 6
            /\ handPos # Null
            /\ DistSq(handPos, NotePos(chart[n], z)) < 121}

C6_Step ==
    frameTime' # Null =>
        \A n \in Reached(frameTime'[1]) :
            /\ chart'[n].hit
            /\ ~chart'[n].missed
            /\ chart'[n].hitTime = frameTime'
            /\ Count(events', <<"hit", n>>) = 1
            /\ hitCalls'[n] = hitCalls[n] + 1
            /\ n \notin Range(activeNotesRef')

\* C6: a frame that finds an active unresolved note strictly inside the
\* judgement window, with the required hand present and closer than 1.1 to
\* the note's anchor, marks it hit, records the current playback time as
\* hitTime, calls onNoteHit exactly once and removes it from the active list.
C6_Hit == [][C6_Step]_vars

\* The last frame reported a hit at the current audio position.
C6_Witness ==
    \E n \in DOMAIN chart :
        /\ Count(events, <<"hit", n>>) = 1
        /\ chart[n].hit
        /\ chart[n].hitTime = frameTime
        /\ n \notin Range(activeNotesRef)

MissTotal == SumSeq(missCalls)
HitTotal == SumSeq(hitCalls)

C7_HitNeedsHand ==
    ~NewSession =>
        \A n \in DOMAIN chart :
            hitCalls'[n] > hitCalls[n] =>
                (IF chart[n].type = "left" THEN hands.left ELSE hands.right) # Null

\* A note whose hand is absent waits in the active list of a playing session.
C7_SomePending ==
    /\ gameStatus = PLAYING
    /\ \E n \in Range(activeNotesRef) :
           Unresolved(chart[n]) /\ chart[n].type = "right"

\* The session has left playing, or every right-hand note is missed and unhit.
C7_AllSettled ==
    \/ gameStatus # PLAYING
    \/ \A n \in DOMAIN chart :
           chart[n].type = "right" => (chart[n].missed /\ hitCalls[n] = 0)

\* C7: onNoteHit is called for a note only in a frame in which the hand the
\* note requires is present, so a note whose hand is never present is never
\* hit; and while the session stays in playing with frames running and the
\* playback position advancing, every active unresolved note is eventually
\* resolved (missed, when it was not hit).
C7_NoHandMisses ==
    /\ [][C7_HitNeedsHand]_vars
    /\ C7_SomePending ~> C7_AllSettled

\* A note expired in a playing frame while its hand was absent, never hit.
C7_Witness ==
    \E n \in DOMAIN chart :
        /\ gameStatus = PLAYING
        /\ Count(events, <<"miss", n>>) = 1
        /\ hitCalls[n] = 0
        /\ (IF chart[n].type = "left" THEN hands.left ELSE hands.right) = Null

C8_Single ==
    (frameTime' # Null /\ Len(events') = 1 /\ events'[1][1] = "miss")
        => /\ combo' = 0
           /\ IF health - Tenths(10) <= 0
              THEN health' = 0 /\ gameStatus' = GAME_OVER
              ELSE health' = health - Tenths(10) /\ gameStatus' = gameStatus

C8_Tenth ==
    (MissTotal < 10 /\ MissTotal' >= 10 /\ HitTotal' = 0 /\ ~NewSession)
        => (gameStatus' = GAME_OVER /\ health' = 0)

C8_Counts ==
    /\ (HitTotal = 0 /\ MissTotal = 7) => (health = Tenths(30) /\ gameStatus # GAME_OVER)
    /\ (HitTotal = 0 /\ MissTotal < 10) => gameStatus # GAME_OVER
    /\ (HitTotal = 0 /\ MissTotal >= 10) => health = 0

\* C8: a miss sets combo to 0 and lowers health by 10; when the lowered health
\* is <= 0, health becomes 0 and status game_over, otherwise status is
\* unchanged.  Seven misses in a row from health 100 leave health 30 and the
\* session not over; the tenth ends it with health 0, and no earlier one does.
C8_Miss == []C8_Counts /\ [][C8_Single /\ C8_Tenth]_vars

\* Ten misses and no hit: the session is over with health 0.
C8_Witness ==
    /\ MissTotal = 10
    /\ HitTotal = 0
    /\ health = 0
    /\ combo = 0
    /\ gameStatus = GAME_OVER

C9_Step ==
    (frameTime' # Null /\ Len(events') = 1 /\ events'[1][1] = "hit")
        => /\ score' = score + 100
           /\ combo' = combo + 1
           /\ health' = Min(Tenths(100), health + 15)
           /\ gameStatus' = gameStatus
           /\ timeLeft' = timeLeft

\* C9: a hit adds exactly 100 to score and 1 to combo, sets health to
\* min(100, health + 1.5) and leaves status and timeRemaining unchanged.
C9_Hit == [][C9_Step]_vars

\* A hit made alone in its frame after one miss: health 90 became 91.5.
C9_Witness ==
    /\ Len(events) = 1
    /\ events[1][1] = "hit"
    /\ combo = 1
    /\ score = 100
    /\ health = Tenths(90) + 15

\* C10: health stays within [0, 100] in every reachable state.
C10_HealthRange == health >= 0 /\ health <= Tenths(100)

\* A hit at full health left health at 100.
C10_Witness == health = Tenths(100) /\ score > 0 /\ Len(events) > 0

C11_Count == timeLeft = IF ticks < GAME_TIME_LIMIT THEN GAME_TIME_LIMIT - ticks ELSE 0

C11_Step ==
    ticks' = ticks + 1 =>
        /\ timeLeft >= 1 => timeLeft' = timeLeft - 1
        /\ ticks' < GAME_TIME_LIMIT => gameStatus' = gameStatus
        /\ (ticks' = GAME_TIME_LIMIT /\ gameStatus = PLAYING) =>
               (timeLeft' = 0 /\ gameStatus' = VICTORY)

\* C11: a session starts with timeRemaining 90; every countdown tick lowers
\* it by exactly 1, so it is 90 minus the ticks of the session and reaches 0 at
\* the 90th tick and not before; a tick before the 90th leaves the status as
\* it is, and the 90th tick of a playing session sets the status to victory.
C11_Countdown == []C11_Count /\ [][C11_Step]_vars

\* The 90th tick has ended a session in victory.
C11_Witness ==
    /\ ticks = GAME_TIME_LIMIT
    /\ timeLeft = 0
    /\ gameStatus = VICTORY

\* C12: a step that starts and ends in status paused admits, hits and misses
\* no note, makes no Hit or Miss callback and leaves score, combo, health and
\* timeRemaining unchanged.
C12_PausedFrozen ==
    [][(gameStatus = PAUSED /\ gameStatus' = PAUSED) =>
          /\ UNCHANGED <<score, combo, health, timeLeft, chart, activeNotesRef,
                         nextNoteIndexRef, admitCount, hitCalls, missCalls, ticks>>
          /\ events' = <<>>
          /\ frameTime' = Null]_vars

\* A paused session in which a frame, if it ran, would hit a note: the note is
\* unresolved and in the window, its hand is present and within the radius.
C12_Witness ==
    /\ gameStatus = PAUSED
    /\ \E n \in DOMAIN chart :
           LET z == currentZ(chart[n], audioTime)
           IN  /\ Unresolved(chart[n])
               /\ InWindow(z)
               /\ HandFor(chart[n], hands) # Null
               /\ WithinHitRadius(HandFor(chart[n], hands), NotePos(chart[n], z))

\* C13: a start request made with an audio file uploaded and hand tracking
\* ready sets the status to playing, score and combo to 0, health to 100 and
\* timeRemaining to 90, installs a chart whose notes are all unresolved, and
\* leaves the active set empty and the chart read index at 0.
C13_StartAccepted ==
    [][(request' = "start" /\ audioUrl /\ isCameraReady) =>
          /\ gameStatus' = PLAYING
          /\ score' = 0
          /\ combo' = 0
          /\ health' = Tenths(100)
          /\ timeLeft' = GAME_TIME_LIMIT
          /\ chart' # <<>>
          /\ \A n \in DOMAIN chart' : Unresolved(chart'[n])
          /\ activeNotesRef' = <<>>
          /\ nextNoteIndexRef' = 0]_vars

\* A session was just started over the remains of an earlier one: the chart it
\* replaced had resolved notes, and the score had been earned.
C13_Witness ==
    /\ request = "start"
    /\ gameStatus = PLAYING
    /\ score = 0
    /\ timeLeft = GAME_TIME_LIMIT
    /\ activeNotesRef = <<>>
    /\ \E n \in DOMAIN chart : Unresolved(chart[n])

\* C14: a start request made with no audio file uploaded, or with hand tracking
\* not ready, leaves status, score, combo, health, timeRemaining and the chart
\* unchanged.
C14_StartRejected ==
    [][(request' = "start" /\ (~audioUrl \/ ~isCameraReady)) =>
          UNCHANGED <<gameStatus, score, combo, health, timeLeft, chart>>]_vars

\* A start request was just made with hand tracking ready and no audio file
\* uploaded, and the status is still idle.
C14_Witness ==
    /\ request = "start"
    /\ ~audioUrl
    /\ isCameraReady
    /\ gameStatus = IDLE

\* C15: once teardown has run and every pending step of the setup has
\* completed, no camera stream is left with its tracks unstopped.
C15_CameraReleased == (~isActive /\ setup = "ended") => stream # "live"

\* C16: when the most recent detection frame is one whose detector call
\* failed, both published hand positions are null.
C16_FailedFrameNoHands ==
    detected.failed => (hands.left = Null /\ hands.right = Null)

\* A step in which processResults ran (and the ref or the frame differs from
\* the one before).
Processed == ~detected'.failed /\ <<hands', detected'>> # <<hands, detected>>

\* C17: a processed detection frame that does not contain a hand sets that
\* hand's published position to null and leaves its last-known position and
\* its velocity unchanged.
C17_AbsentHand ==
    [][Processed =>
          /\ detected'.left = Null =>
                 /\ hands'.left = Null
                 /\ hands'.lastLeft = hands.lastLeft
                 /\ hands'.leftVelocity = hands.leftVelocity
          /\ detected'.right = Null =>
                 /\ hands'.right = Null
                 /\ hands'.lastRight = hands.lastRight
                 /\ hands'.rightVelocity = hands.rightVelocity]_vars

\* The left hand has just gone absent after having moved: its last-known
\* position and a velocity other than zero are retained.
C17_Witness ==
    /\ ~detected.failed
    /\ detected.dt > 0
    /\ detected.left = Null
    /\ hands.left = Null
    /\ hands.lastLeft # Null
    /\ hands.leftVelocity # <<0, 0, 0>>

\* C18: a frame calls onNoteHit for a note only when the most recent
\* detection frame contained the hand the note requires; the position it
\* compares with the note is then the one that detection frame published.
C18_FreshHand ==
    [][\A n \in DOMAIN chart' :
           Count(events', <<"hit", n>>) > 0 =>
               /\ ~detected.failed
               /\ (IF chart'[n].type = "left" THEN detected.left
                                             ELSE detected.right) # Null]_vars

\* C19: a processed frame that detects a hand whose published position was
\* null publishes the raw mapped position, and the hand's velocity is zero
\* after it.
C19_Appearance ==
    [][Processed =>
          /\ (hands.left = Null /\ detected'.left # Null) =>
                 /\ hands'.left = detected'.left
                 /\ hands'.leftVelocity = <<0, 0, 0>>
          /\ (hands.right = Null /\ detected'.right # Null) =>
                 /\ hands'.right = detected'.right
                 /\ hands'.rightVelocity = <<0, 0, 0>>]_vars

\* prev, raw and new are positions in tenths: new is prev + 0.6 * (raw - prev)
\* in each coordinate, to the nearest tenth.
Blended(prev, raw, new) ==
    \A i \in 1..3 : Abs(10 * (new[i] - prev[i]) - 6 * (raw[i] - prev[i])) <= 5

C20_Step ==
    Processed =>
        /\ (hands.left # Null /\ detected'.left # Null) =>
               Blended(hands.left, detected'.left, hands'.left)
        /\ (hands.right # Null /\ detected'.right # Null) =>
               Blended(hands.right, detected'.right, hands'.right)

\* C20: a processed frame that detects a hand which has a published position
\* publishes previous + 0.6 * (raw - previous) in each coordinate; previous
\* (0,0,0) and raw (10,0,0) give (6,0,0).
C20_Smoothing ==
    /\ [](lerpVectors(<<0, 0, 0>>, <<Tenths(10), 0, 0>>, LERP) = <<Tenths(6), 0, 0>>)
    /\ [][C20_Step]_vars

\* The left hand was just detected away from its previous position: the
\* published position lies between the previous one and the raw one.
C20_Witness ==
    /\ ~detected.failed
    /\ detected.left # Null
    /\ hands.left # Null
    /\ hands.left # detected.left
    /\ hands.lastLeft # hands.left

\* vel is (new - prev) / dt: positions in tenths, dt in ms, vel in tenths per
\* second.
VelocityOf(prev, new, dt, vel) ==
    \A i \in 1..3 : vel[i] * dt = 1000 * (new[i] - prev[i])

\* The velocity of one hand over a step: prev and new are its published
\* positions before and after, raw the position the frame contained.
VelocityRule(prev, new, raw, oldVel, newVel) ==
    IF Processed /\ raw # Null /\ prev # Null /\ detected'.dt > 1
    THEN VelocityOf(prev, new, detected'.dt, newVel)
    ELSE newVel = oldVel

\* C21: a hand's velocity becomes (new smoothed position - previous smoothed
\* position) / deltaTime in a processed frame that detects the hand while it
\* has a published position and deltaTime exceeds 1 ms; every other step
\* leaves the velocity unchanged.
C21_Velocity ==
    [][/\ VelocityRule(hands.left, hands'.left, detected'.left,
                       hands.leftVelocity, hands'.leftVelocity)
       /\ VelocityRule(hands.right, hands'.right, detected'.right,
                       hands.rightVelocity, hands'.rightVelocity)]_vars

\* The left hand was just detected 1 ms after the frame before, away from its
\* previous position: the velocity of an earlier frame is still there.
C21_Witness ==
    /\ ~detected.failed
    /\ detected.dt = 1
    /\ detected.left # Null
    /\ hands.left # hands.lastLeft
    /\ hands.leftVelocity # <<0, 0, 0>>
    /\ ~VelocityOf(hands.lastLeft, hands.left, 1, hands.leftVelocity)

\* note.time - spawnLookahead > time, with spawnLookahead =
\* |SPAWN_Z - PLAYER_Z| / NOTE_SPEED seconds and times in ticks
TooEarly(note, time) ==
    NOTE_SPEED * (note.time - time) > Seconds(Abs(SPAWN_Z - PLAYER_Z))

C22_Step ==
    frameTime' # Null =>
        /\ \A n \in Range(activeNotesRef') : ~TooEarly(chart'[n], frameTime'[1])
        /\ \A n \in (nextNoteIndexRef' + 1)..Len(chart') :
               \E m \in (nextNoteIndexRef' + 1)..n : TooEarly(chart'[m], frameTime'[1])

\* C22: at the end of every frame the active list holds no note whose time
\* lies more than the spawn lookahead after the playback position, and every
\* note the admit loop left in the chart is such a note or follows one in
\* chart order.
C22_Admitted == [][C22_Step]_vars

\* A frame has just left a note unadmitted, and the session goes on.
C22_Witness ==
    /\ frameTime # Null
    /\ gameStatus = PLAYING
    /\ nextNoteIndexRef < Len(chart)
    /\ TooEarly(chart[nextNoteIndexRef + 1], frameTime[1])

\* C23: the chart generateDemoChart returns is ordered non-decreasing by
\* time: of two adjacent notes the first is not later than the second.
C23_Sorted ==
    generated => \A k \in 1..(Len(notes) - 1) : notes[k].time <= notes[k + 1].time

\* A returned chart with simultaneous notes, notes of different times and
\* every note the loop pushed.
C23_Witness ==
    /\ generated
    /\ Len(notes) = idCount
    /\ \E k \in 1..(Len(notes) - 1) : notes[k].time = notes[k + 1].time
    /\ \E k \in 1..(Len(notes) - 1) : notes[k].time < notes[k + 1].time

\* The values the loop variable takes, in half beats: 4, 5.5, 7, ... below 200.
BeatSteps ==
    {b \in Halves(FIRST_BEAT)..(Halves(END_BEAT) - 1) :
        (b - Halves(FIRST_BEAT)) % BEAT_STEP = 0}

\* The notes of the returned chart at the time of beat step b: the time is
\* (b / 2) * 60 / SONG_BPM seconds, note times are in 1/64 s.
NotesAt(b) ==
    {k \in DOMAIN notes : 2 * SONG_BPM * notes[k].time = 64 * 60 * b}

\* floor(i / 8) mod 4 for i = b / 2
Segment(b) == (b \div 16) % 4

\* C24: for every beat step i with floor(i/8) mod 4 = 0 the returned chart has
\* exactly one note at time i * 60/BPM; its lane is floor(i) mod 6 and its hand
\* left if the lane is below 3, else right. Step i = 4 gives time 1.875 s,
\* lane 4, hand right.
C24_CircleFlow ==
    generated =>
        /\ \A b \in BeatSteps :
               Segment(b) = 0 =>
                   /\ Cardinality(NotesAt(b)) = 1
                   /\ \A k \in NotesAt(b) :
                          /\ notes[k].lineIndex = (b \div 2) % 6
                          /\ notes[k].type =
                                 IF notes[k].lineIndex < 3 THEN "left" ELSE "right"
        /\ \E k \in DOMAIN notes :
               /\ 1000 * notes[k].time = 64 * 1875
               /\ notes[k].lineIndex = 4
               /\ notes[k].type = "right"

\* A returned chart with the note of step 4 and the note of step 5.5, which
\* lies on lane 5.
C24_Witness ==
    /\ generated
    /\ \E k \in NotesAt(8) : notes[k].lineIndex = 4 /\ notes[k].type = "right"
    /\ \E k \in NotesAt(11) : notes[k].lineIndex = 5
    /\ \E k \in NotesAt(65) : notes[k].lineIndex = 2 /\ notes[k].type = "left"

\* The notes of the returned chart at the time of step b are exactly two, one
\* on lane left for the left hand and one on lane right for the right hand.
PairAt(b, left, right) ==
    /\ Cardinality(NotesAt(b)) = 2
    /\ \E k \in NotesAt(b) : notes[k].lineIndex = left /\ notes[k].type = "left"
    /\ \E k \in NotesAt(b) : notes[k].lineIndex = right /\ notes[k].type = "right"

\* C25: in the segments of pattern 1 a step with i mod 3 = 0 gives two notes of
\* the same time on lane 0 (left) and lane 3 (right), in the segments of
\* pattern 3 a step with i mod 4 = 0 gives two notes of the same time on
\* lane 1 (left) and lane 4 (right); the other steps of those segments give
\* no note.
C25_Pairs ==
    generated =>
        \A b \in BeatSteps :
            /\ Segment(b) = 1 =>
                   IF b % 6 = 0 THEN PairAt(b, 0, 3) ELSE NotesAt(b) = {}
            /\ Segment(b) = 3 =>
                   IF b % 8 = 0 THEN PairAt(b, 1, 4) ELSE NotesAt(b) = {}

\* A returned chart with the pair of step 28 and nothing at step 29.5.
C25_Witness ==
    /\ generated
    /\ PairAt(56, 1, 4)
    /\ NotesAt(59) = {}
    /\ \E b \in BeatSteps : Segment(b) = 1 /\ NotesAt(b) = {}

\* The hand at position hand is closer than 1.1 to the anchor of lane
\* lineIndex at depth z (all in tenths).
Reaches(hand, lineIndex, z) ==
    LET a == getLanePosition(lineIndex)
        dx == hand[1] - a.x
        dy == hand[2] - a.y
        dz == hand[3] - z
    IN  dx * dx + dy * dy + dz * dz < 121

\* What a frame at playback position time needs to hit note n: the note is in
\* the active list (it was there, or this frame admits it) and unresolved,
\* time - note.time lies strictly between -0.1 s and +0.05 s (depth between
\* -1.2 and +0.6), and the hand of the note's type is present and in reach.
HitAllowed(n, time) ==
    LET note == chart[n]
        late == time - note.time
        hand == IF note.type = "left" THEN hands.left ELSE hands.right
    IN  /\ n \in Range(activeNotesRef) \/ (n > nextNoteIndexRef /\ n <= nextNoteIndexRef')
        /\ ~note.hit /\ ~note.missed
        /\ 10 * late > -Seconds(1) /\ 20 * late < Seconds(1)
        /\ hand # Null
        /\ Reaches(hand, note.lineIndex, (late * Tenths(NOTE_SPEED)) \div Seconds(1))

\* C26: onNoteHit is called for a note only by a frame that runs while the
\* status is playing and finds the note active, unresolved, strictly inside
\* the judgement window, and the hand the note requires present and closer
\* than the hit radius to the note's anchor.
C26_HitOnlyWhen ==
    [][\A n \in DOMAIN chart' :
           Count(events', <<"hit", n>>) > 0 =>
               /\ frameTime' # Null
               /\ gameStatus = PLAYING
               /\ HitAllowed(n, frameTime'[1])]_vars

\* The active unresolved notes a frame at playback position time has left
\* behind whose depth (time - note.time) * NOTE_SPEED, in units, is at least
\* tenthsOfDepth / 10 or, when strict, above it.
LeftBehind(time, tenthsOfDepth, strict) ==
    {n \in Range(activeNotesRef') :
        /\ ~chart'[n].hit /\ ~chart'[n].missed
        /\ LET d == Tenths((time - chart'[n].time) * NOTE_SPEED)
               e == tenthsOfDepth * Seconds(1)
           IN  IF strict THEN d > e ELSE d >= e}

\* C27 as stated: no frame ends with an active unresolved note that has passed
\* the far edge of the judgement window (depth 0.6 behind the hit zone).
C27_NoneBehindWindow ==
    [][frameTime' # Null => LeftBehind(frameTime'[1], 6, FALSE) = {}]_vars

\* C27 as amended: no frame ends with an active unresolved note that has
\* passed the miss boundary (depth MISS_Z behind the hit zone).
C27_NoneBehindBoundary ==
    [][frameTime' # Null => LeftBehind(frameTime'[1], Tenths(MISS_Z), TRUE) = {}]_vars

\* A frame has just left a note behind the judgement window and before the
\* miss boundary, unresolved, although its hand is on its anchor.
C27_Witness ==
    /\ frameTime # Null
    /\ gameStatus = PLAYING
    /\ \E n \in Range(activeNotesRef) :
           /\ Unresolved(chart[n])
           /\ frameTime[1] - chart[n].time = 5
           /\ HandFor(chart[n], hands) # Null
           /\ Reaches(HandFor(chart[n], hands), chart[n].lineIndex, HandFor(chart[n], hands)[3])

C28_Step ==
    frameTime' # Null =>
        \A m, n \in DOMAIN chart :
            (/\ m < n
             /\ chart[m].type = chart[n].type
             /\ HitAllowed(m, frameTime'[1])
             /\ HitAllowed(n, frameTime'[1])) =>
                /\ chart'[m].hit /\ chart'[n].hit
                /\ Count(events', <<"hit", m>>) = 1
                /\ Count(events', <<"hit", n>>) = 1
                /\ Len(events') = 2 => (score' = score + 200 /\ combo' = combo + 2)

\* C28: a frame that finds two active unresolved notes for the same hand both
\* inside the judgement window and both within the hit radius of that hand
\* marks both hit and calls onNoteHit for each: score +200, combo +2.
C28_BothHit == [][C28_Step]_vars

\* One frame has just hit both notes of the chart with the same hand sample.
C28_Witness ==
    /\ events = <<<<"hit", 2>>, <<"hit", 1>>>>
    /\ chart[1].type = chart[2].type
    /\ chart[1].hitTime = chart[2].hitTime
    /\ score = 200
    /\ combo = 2

\* C29: a step that changes the status to game_over or victory starts in
\* status playing.
C29_TerminalFromPlaying ==
    [][(gameStatus' \in {GAME_OVER, VICTORY} /\ gameStatus' # gameStatus) =>
          gameStatus = PLAYING]_vars

\* The step is a start request that the guard of startGame lets through.
SuccessfulStart == request' = "start" /\ gameStatus' = PLAYING

\* C30: a reset request made in status game_over or victory leaves the status
\* idle, the active set empty and the read index 0; and from status idle every
\* step other than a successful start keeps the status idle, the active set
\* empty and the read index 0, reports no hit and no miss to the application
\* and does not run the countdown.
C30_ResetClears ==
    [][/\ (request' = "reset" /\ gameStatus \in {GAME_OVER, VICTORY}) =>
             /\ gameStatus' = IDLE
             /\ activeNotesRef' = <<>>
             /\ nextNoteIndexRef' = 0
       /\ (gameStatus = IDLE /\ ~SuccessfulStart) =>
             /\ gameStatus' = IDLE
             /\ activeNotesRef' = <<>>
             /\ nextNoteIndexRef' = 0
             /\ events' = <<>>
             /\ hitCalls' = hitCalls /\ missCalls' = missCalls
             /\ <<score', combo', health'>> = <<score, combo, health>>
             /\ timeLeft' = timeLeft /\ ticks' = ticks]_vars

\* The result screen of a lost session was just left: the session is idle with
\* the health at 0 and the misses of the session still counted.
C30_Witness ==
    /\ request = "reset"
    /\ gameStatus = IDLE
    /\ health = 0
    /\ \E n \in 1..Len(chart) : chart[n].missed /\ missCalls[n] = 1
    /\ activeNotesRef = <<>> /\ nextNoteIndexRef = 0

\* C31: no note of the active set is flagged hit or missed.
C31_ActiveUnresolved ==
    \A i \in 1..Len(activeNotesRef) :
        ~chart[activeNotesRef[i]].hit /\ ~chart[activeNotesRef[i]].missed

\* C32: no note is in the active set twice.
C32_NoDuplicates ==
    \A i, j \in 1..Len(activeNotesRef) :
        activeNotesRef[i] = activeNotesRef[j] => i = j

\* After a pause and a resume, a frame has pushed two notes onto the emptied
\* active set, one of them for the second time in the session.
C32_Witness ==
    /\ pauses > 0
    /\ gameStatus = PLAYING
    /\ frameTime # Null
    /\ Len(activeNotesRef) >= 2
    /\ \E i \in 1..Len(activeNotesRef) : admitCount[activeNotesRef[i]] = 2

\* C33: the callbacks of one frame are made from the most recently admitted
\* note to the earliest admitted one, and no onNoteHit call comes after an
\* onNoteMiss call of the same frame.
C33_HitsBeforeMisses ==
    \A i, j \in 1..Len(events) :
        i < j => /\ events[i][2] > events[j][2]
                 /\ ~(events[i][1] = "miss" /\ events[j][1] = "hit")

\* A frame has just reported a hit and a miss.
C33_Witness ==
    /\ frameTime # Null
    /\ \E i, j \in 1..Len(events) : events[i][1] = "hit" /\ events[j][1] = "miss"

\* C34: whenever the status is game_over, health is exactly 0.
C34_GameOverHealthZero == gameStatus = GAME_OVER => health = 0

\* C35: at most one countdown interval is live, and one is live only while
\* the status is playing.
C35_SingleTimer ==
    /\ intervals <= 1
    /\ intervals > 0 => gameStatus = PLAYING

\* C36: for each of the four patterns, the returned chart has a note at the
\* time of a beat step whose segment selects that pattern.
C36_EveryPatternContributes ==
    generated =>
        \A pattern \in 0..3 :
            \E b \in BeatSteps : Segment(b) = pattern /\ NotesAt(b) # {}
====
